---- MODULE Spec2Model ----
(***************************************************************************)
(* Model of shared.py: the event store (HISTORY, events.json, trigger,     *)
(* 7-day retention) and the account store (users.json and the operations   *)
(* over it).                                                               *)
(*                                                                         *)
(* Python strings that the code inspects character by character            *)
(* (passwords, e-mail addresses, security answers, button codes) are       *)
(* sequences of one-character strings.  Strings the code only compares or  *)
(* stores (languages, phrases, messages, ids) are TLA+ strings.  Phrases   *)
(* holding non-ASCII letters are written in ASCII.                         *)
(*                                                                         *)
(* The file system is taken to be reliable: open/json.dump succeed, so the *)
(* except-branches of the two save functions are not taken.                *)
(***************************************************************************)
EXTENDS Integers, Sequences, FiniteSets, TLC

VARIABLES
    now,         \* the wall clock (datetime.now()), in ticks
    nticks,      \* how many times the clock has advanced (bounds the run)
    HISTORY,     \* shared.HISTORY: sequence of Event, newest first
    eventsFile,  \* events.json: [state, data]
    last,        \* the last event-store step: its arguments, what it pruned
    spoken,      \* arguments of the last speak_text call
    returned,    \* value returned by the last trigger call
    users,       \* users.json: sequence of <<user_id, record>> in dict order
    nops,        \* how many account operations have written users.json
    lastCall,    \* the last account operation: its arguments and result
    verified,    \* user ids for which verify_security_answer has succeeded
    signups,     \* successful signups, [email, password, user_id], whose
                 \* password no reset_password has replaced since
    trial,       \* policy model: the password under test
    pc,          \* race model: position of each caller
    snap,        \* race model: the dict each caller loaded
    raceOp,      \* race model: the operation each caller runs
    writes       \* race model: callers in the order they saved

vars == <<now, nticks, HISTORY, eventsFile, last, spoken, returned, users, nops,
          lastCall, verified, signups, trial, pc, snap, raceOp, writes>>

eventVars == <<now, nticks, HISTORY, eventsFile, last, spoken, returned>>
accountVars == <<users, nops, lastCall, verified, signups>>
raceVars == <<pc, snap, raceOp, writes>>
idleVars == <<trial, raceVars>>

-----------------------------------------------------------------------------
(* Bounds of the model *)

TicksPerSecond == 2    \* clock resolution below the one-second timestamps
MaxTicks == 3          \* clock advances explored
MaxHistory == 2        \* trigger is explored while HISTORY is shorter
MaxTrialLen == 7       \* longest password tried against the policy
MaxOps == 3            \* writes of users.json explored

-----------------------------------------------------------------------------
(* Python values *)

None == [none |-> TRUE]
Str(s) == [none |-> FALSE, str |-> s]

\* bool(v) of an Optional[str]: None and "" are falsy
Truthy(v) == ~v.none /\ Len(v.str) > 0

\* the character ranges A-Z, a-z and 0-9
AsciiUpper ==
    {"A", "B", "C", "D", "E", "F", "G", "H", "I", "J", "K", "L", "M",
     "N", "O", "P", "Q", "R", "S", "T", "U", "V", "W", "X", "Y", "Z"}
AsciiLower ==
    {"a", "b", "c", "d", "e", "f", "g", "h", "i", "j", "k", "l", "m",
     "n", "o", "p", "q", "r", "s", "t", "u", "v", "w", "x", "y", "z"}
AsciiDigits == {"0", "1", "2", "3", "4", "5", "6", "7", "8", "9"}
Whitespace == {" "}

LowerLetters ==
    <<"a", "b", "c", "d", "e", "f", "g", "h", "i", "j", "k", "l", "m",
      "n", "o", "p", "q", "r", "s", "t", "u", "v", "w", "x", "y", "z">>
UpperLetters ==
    <<"A", "B", "C", "D", "E", "F", "G", "H", "I", "J", "K", "L", "M",
      "N", "O", "P", "Q", "R", "S", "T", "U", "V", "W", "X", "Y", "Z">>

\* str.upper() / str.lower() of one character
UpperChar(c) ==
    IF c \in AsciiLower
    THEN UpperLetters[CHOOSE i \in 1..26 : LowerLetters[i] = c]
    ELSE c

LowerChar(c) ==
    IF c \in AsciiUpper
    THEN LowerLetters[CHOOSE i \in 1..26 : UpperLetters[i] = c]
    ELSE c

Upper(s) == [i \in 1..Len(s) |-> UpperChar(s[i])]
Lower(s) == [i \in 1..Len(s) |-> LowerChar(s[i])]

RECURSIVE LStrip(_)
LStrip(s) ==
    IF Len(s) > 0 /\ s[1] \in Whitespace THEN LStrip(Tail(s)) ELSE s

RECURSIVE RStrip(_)
RStrip(s) ==
    IF Len(s) > 0 /\ s[Len(s)] \in Whitespace
    THEN RStrip(SubSeq(s, 1, Len(s) - 1))
    ELSE s

\* str.strip()
Strip(s) == RStrip(LStrip(s))

\* `c in s` for a one-character c
Contains(s, c) == \E i \in 1..Len(s) : s[i] = c

-----------------------------------------------------------------------------
(* Event store *)

RetentionDays == 7
RetentionTicks == RetentionDays * 24 * 60 * 60 * TicksPerSecond

\* datetime.strftime("%Y-%m-%d %H:%M:%S"): the clock cut to whole seconds
Strftime(t) == <<"ts", t \div TicksPerSecond>>

\* datetime.strptime(s, "%Y-%m-%d %H:%M:%S") raises on any other string
CanStrptime(s) == Len(s) = 2 /\ s[1] = "ts"
Strptime(s) == s[2] * TicksPerSecond

EventFields ==
    {"ts", "source", "button", "language", "text", "device_id", "user_id"}
RequiredFields == {"ts", "source", "button", "language", "text"}

\* asdict(e)
AsDict(e) == [f \in EventFields |-> e[f]]

\* Event(**item): raises TypeError on a missing required or an unknown key,
\* fills the defaults of device_id and user_id
CanMakeEvent(item) ==
    RequiredFields \subseteq DOMAIN item /\ DOMAIN item \subseteq EventFields

MakeEvent(item) ==
    [f \in EventFields |->
        IF f \in DOMAIN item THEN item[f]
        ELSE IF f = "device_id" THEN "unknown" ELSE "default"]

\* body of the per-item try block of _load_events_from_file
ItemLoads(item, t) ==
    /\ "ts" \in DOMAIN item
    /\ CanStrptime(item["ts"])
    /\ Strptime(item["ts"]) >= t - RetentionTicks
    /\ CanMakeEvent(item)

\* Variant: each loaded event is put in front of the ones loaded before it
RECURSIVE LoadItems_Reversed(_, _)
LoadItems_Reversed(data, t) ==
    IF data = <<>> THEN <<>>
    ELSE IF ItemLoads(Head(data), t)
         THEN LoadItems_Reversed(Tail(data), t) \o <<MakeEvent(Head(data))>>
         ELSE LoadItems_Reversed(Tail(data), t)

RECURSIVE LoadItems(_, _)
LoadItems(data, t) ==
    IF data = <<>> THEN <<>>
    ELSE IF ItemLoads(Head(data), t)
         THEN <<MakeEvent(Head(data))>> \o LoadItems(Tail(data), t)
         ELSE LoadItems(Tail(data), t)

\* _load_events_from_file() called when the clock reads t
LoadEventsFromFile(file, t) ==
    IF file.state # "ok" THEN <<>> ELSE LoadItems(file.data, t)

\* _save_events_to_file(events)
SaveEventsToFile(events) ==
    [state |-> "ok", data |-> [i \in 1..Len(events) |-> AsDict(events[i])]]

\* Variant: the cutoff lies one second too far back
KeepsEvent_Late(e, t) ==
    Strptime(e.ts) >= t - RetentionTicks - TicksPerSecond

\* the list comprehension of _cleanup_old_events with cutoff = t - 7 days
KeepsEvent(e, t) == Strptime(e.ts) >= t - RetentionTicks

CleanupOldEvents(h, t) == SelectSeq(h, LAMBDA e : KeepsEvent(e, t))

\* CONFIG: button code -> language -> phrase
Phrases(en, hi, it, de, fr, es) ==
    [l \in {"en", "hi", "it", "de", "fr", "es"} |->
        CASE l = "en" -> en [] l = "hi" -> hi [] l = "it" -> it
          [] l = "de" -> de [] l = "fr" -> fr [] OTHER -> es]

BTN(d) == <<"B", "T", "N", d>>

ButtonCodes == {BTN("1"), BTN("2"), BTN("3"), BTN("4"), BTN("5"), BTN("6")}

CONFIG ==
    [b \in ButtonCodes |->
        CASE b = BTN("1") ->
               Phrases("I need help", "mujhe madad chahiye",
                       "Ho bisogno di aiuto", "Ich brauche Hilfe",
                       "J'ai besoin d'aide", "Necesito ayuda")
          [] b = BTN("2") ->
               Phrases("Medicines please", "kripaya davaen den",
                       "Medicinali per favore", "Medikamente bitte",
                       "Medicaments s'il vous plait", "Medicinas por favor")
          [] b = BTN("3") ->
               Phrases("I need water", "mujhe paani chahiye",
                       "Ho bisogno di acqua", "Ich brauche Wasser",
                       "J'ai besoin d'eau", "Necesito agua")
          [] b = BTN("4") ->
               Phrases("I need rest", "mujhe aaram chahiye",
                       "Ho bisogno di riposo", "Ich brauche Ruhe",
                       "J'ai besoin de repos", "Necesito descanso")
          [] b = BTN("5") ->
               Phrases("Please come here", "kripaya yahan aaie",
                       "Per favore vieni qui", "Bitte komm her",
                       "S'il vous plait, venez ici", "Por favor ven aqui")
          [] OTHER ->
               Phrases("Emergency!", "aapatkaal!", "Emergenza!", "Notfall!",
                       "Urgence!", "Emergencia!")]

\* button.strip().upper()
NormalizeButton(button) == Upper(Strip(button))

\* Variant: no fallback to the English phrase
ResolveText_NoFallback(button, language, custom_text) ==
    IF Truthy(custom_text) THEN custom_text.str
    ELSE IF button \notin DOMAIN CONFIG \/ language \notin DOMAIN CONFIG[button]
         THEN <<"Unknown button ">> \o button
         ELSE <<CONFIG[button][language]>>

\* the if/elif/else of trigger that picks the text; button is normalized
ResolveText(button, language, custom_text) ==
    IF Truthy(custom_text) THEN custom_text.str
    ELSE IF button \notin DOMAIN CONFIG
         THEN <<"Unknown button ">> \o button
         ELSE IF language \in DOMAIN CONFIG[button]
              THEN <<CONFIG[button][language]>>
              ELSE <<CONFIG[button]["en"]>>

\* Inputs explored for trigger
RawButtons == {BTN("3"), <<" ", "b", "t", "n", "3", " ">>, <<"b", "t", "n", "9">>}
Languages == {"fr", "pt"}
CustomTexts == {None, Str(<<>>), Str(<<"Call Ana">>)}

\* trigger(button, language, source, custom_text, device_id, user_id); the
\* clock advances by d ticks between the stamp of the event and the cutoff
\* of the prune pass
Trigger(button, language, source, custom_text, device_id, user_id, d) ==
    LET b    == NormalizeButton(button)
        text == ResolveText(b, language, custom_text)
        evt  == [ts |-> Strftime(now), source |-> source, button |-> b,
                 language |-> language, text |-> text,
                 device_id |-> device_id, user_id |-> user_id]
        h1   == <<evt>> \o HISTORY
        h2   == CleanupOldEvents(h1, now + d)
    IN  /\ Len(HISTORY) < MaxHistory
        /\ d = 0 \/ nticks < MaxTicks
        /\ now' = now + d
        /\ nticks' = IF d = 0 THEN nticks ELSE nticks + 1
        /\ HISTORY' = h2
        /\ eventsFile' = SaveEventsToFile(h2)
        /\ last' = [op |-> "trigger", dropped |-> Len(h1) - Len(h2),
                    button |-> button, custom_text |-> custom_text]
        /\ spoken' = [text |-> text, language |-> language]
        /\ returned' = AsDict(evt)
        /\ UNCHANGED <<accountVars, idleVars>>

TriggerCall ==
    \E button \in RawButtons, language \in Languages,
       custom_text \in CustomTexts, d \in {0, 1} :
        Trigger(button, language, "UI", custom_text, "unknown", "default", d)

\* time passes between calls
ClockSteps == {1, RetentionTicks - 1}

Tick ==
    \E d \in ClockSteps :
        /\ nticks < MaxTicks
        /\ now' = now + d
        /\ nticks' = nticks + 1
        /\ last' = [op |-> "tick", dropped |-> 0]
        /\ UNCHANGED <<HISTORY, eventsFile, spoken, returned,
                       accountVars, idleVars>>

\* the process is started again: HISTORY = _load_events_from_file()
Restart ==
    /\ HISTORY' = LoadEventsFromFile(eventsFile, now)
    /\ last' = [op |-> "start", dropped |-> 0]
    /\ UNCHANGED <<now, nticks, eventsFile, spoken, returned,
                   accountVars, idleVars>>

\* events.json as a first start can find it, when the clock reads t0
StartTime == RetentionTicks + 3 * TicksPerSecond

StoredItem(sec, button) ==
    [ts |-> <<"ts", sec>>, source |-> "DEVICE", button |-> button,
     language |-> "en", text |-> <<CONFIG[button]["en"]>>,
     device_id |-> "esp32", user_id |-> "default"]

LegacyItem(sec, button) ==
    [ts |-> <<"ts", sec>>, source |-> "UI", button |-> button,
     language |-> "en", text |-> <<CONFIG[button]["en"]>>]

FileOf(data) == [state |-> "ok", data |-> data]

StartFiles ==
    { [state |-> "absent", data |-> <<>>],
      [state |-> "corrupt", data |-> <<>>],
      \* one event stamped at the cutoff of the first start, one a second
      \* before it
      FileOf(<<StoredItem(3, BTN("1")), StoredItem(2, BTN("2"))>>),
      \* an entry with an unreadable timestamp, one written without the
      \* device and user fields, one with a key Event does not have
      FileOf(<<[StoredItem(3, BTN("6")) EXCEPT !.ts = <<"31/12/2025">>],
               LegacyItem(3, BTN("4")),
               [f \in EventFields \cup {"note"} |->
                   IF f = "note" THEN "x" ELSE StoredItem(3, BTN("5"))[f]]>>) }

EventInit ==
    /\ now = StartTime
    /\ nticks = 0
    /\ eventsFile \in StartFiles
    /\ HISTORY = LoadEventsFromFile(eventsFile, StartTime)
    /\ last = [op |-> "start", dropped |-> 0]
    /\ spoken = [text |-> <<>>, language |-> ""]
    /\ returned = None

EventNext == TriggerCall \/ Tick \/ Restart

-----------------------------------------------------------------------------
(* Account store *)

\* _hash_password(s): SHA-256, taken to be free of collisions
HashPassword(s) == <<"sha256", s>>

Msg(s) == <<s>>

Fail(m) == [success |-> FALSE, message |-> Msg(m)]

\* `user_id in users`, users[user_id] and the dict's key order
Ids(us) == {us[i].id : i \in 1..Len(us)}
Pos(us, uid) == CHOOSE i \in 1..Len(us) : us[i].id = uid
User(us, uid) == us[Pos(us, uid)]

\* Variant: only the first record is compared
FindByEmail_FirstOnly(us, email) ==
    IF Len(us) > 0 /\ us[1].email = email THEN us[1].id ELSE ""

\* the first key, in dict order, whose record holds the email; "" if none
FindByEmail(us, email) ==
    IF \E i \in 1..Len(us) : us[i].email = email
    THEN us[CHOOSE i \in 1..Len(us) :
                /\ us[i].email = email
                /\ \A j \in 1..(i - 1) : us[j].email # email].id
    ELSE ""

\* users[uid] = rec for a key the dict holds
Put(us, uid, rec) == [us EXCEPT ![Pos(us, uid)] = rec]

\* re.search(r"[A-Z]", s), re.search(r"[0-9]", s), re.search(r"[^A-Za-z0-9]", s)
SearchUpper(s) == \E i \in 1..Len(s) : s[i] \in AsciiUpper
SearchDigit(s) == \E i \in 1..Len(s) : s[i] \in AsciiDigits
SearchSpecial(s) ==
    \E i \in 1..Len(s) : s[i] \notin AsciiUpper \cup AsciiLower \cup AsciiDigits

MinPasswordLen == 7

\* Variant: a password of exactly the minimum length is refused
SignupPasswordError_Longer(password) ==
    IF Len(password) <= MinPasswordLen
    THEN "Password must be at least 7 characters"
    ELSE IF ~SearchUpper(password)
    THEN "Password must include at least one uppercase letter"
    ELSE IF ~SearchDigit(password)
    THEN "Password must include at least one digit"
    ELSE IF ~SearchSpecial(password)
    THEN "Password must include at least one special character"
    ELSE ""

\* the password checks of user_signup; "" when all pass
SignupPasswordError(password) ==
    IF Len(password) < MinPasswordLen
    THEN "Password must be at least 7 characters"
    ELSE IF ~SearchUpper(password)
    THEN "Password must include at least one uppercase letter"
    ELSE IF ~SearchDigit(password)
    THEN "Password must include at least one digit"
    ELSE IF ~SearchSpecial(password)
    THEN "Password must include at least one special character"
    ELSE ""

\* the password checks of reset_password; "" when all pass
ResetPasswordError(new_password) ==
    IF Len(new_password) < MinPasswordLen
    THEN "Password must be at least 7 characters"
    ELSE IF ~SearchUpper(new_password)
    THEN "Password must include at least one uppercase letter"
    ELSE IF ~SearchDigit(new_password)
    THEN "Password must include at least one digit"
    ELSE IF ~SearchSpecial(new_password)
    THEN "Password must include at least one special character"
    ELSE ""

\* `x or ""` for an Optional[str]
OrEmpty(v) == IF Truthy(v) THEN v.str ELSE <<>>

NoDevices == [d \in {} |-> ""]

\* Each operation below is the body of the Python function applied to the
\* dict `us` it loaded: [users: the dict at return, saved: whether
\* _save_users ran, result: the value returned].

\* user_signup; user_id is the uuid4 drawn, t the clock
UserSignup(us, email, password, primary_account, name, phone, security_question, security_answer, user_id, t) ==
    IF ~Contains(email, "@") \/ ~Contains(email, ".")
    THEN [users |-> us, saved |-> FALSE, result |-> Fail("Invalid email format")]
    ELSE IF FindByEmail(us, email) # ""
    THEN [users |-> us, saved |-> FALSE,
          result |-> Fail("Email already registered")]
    ELSE IF SignupPasswordError(password) # ""
    THEN [users |-> us, saved |-> FALSE,
          result |-> Fail(SignupPasswordError(password))]
    ELSE [users |-> Append(us,
              [id |-> user_id,
               email |-> email,
               password_hash |-> HashPassword(password),
               name |-> OrEmpty(name),
               phone |-> OrEmpty(phone),
               theme |-> "light",
               security_question |-> OrEmpty(security_question),
               security_answer_hash |->
                   HashPassword(Strip(Lower(OrEmpty(security_answer)))),
               created_at |-> Strftime(t),
               is_primary |-> primary_account,
               devices |-> NoDevices,
               caretakers |-> <<>>,
               family |-> <<>>]),
          saved |-> TRUE,
          result |-> [success |-> TRUE, message |-> Msg("Account created"),
                      user_id |-> user_id]]

\* Variant: the password is normalized like a security answer
UserLogin_Normalized(us, email, password) ==
    LET uid == FindByEmail(us, email)
    IN  IF uid = "" THEN Fail("Email not found")
        ELSE IF User(us, uid).password_hash
                    = HashPassword(Strip(Lower(password)))
        THEN [success |-> TRUE, message |-> Msg("Login successful"),
              user_id |-> uid]
        ELSE Fail("Incorrect password")

\* user_login
UserLogin(us, email, password) ==
    LET uid == FindByEmail(us, email)
    IN  IF uid = "" THEN Fail("Email not found")
        ELSE IF User(us, uid).password_hash = HashPassword(password)
        THEN [success |-> TRUE, message |-> Msg("Login successful"),
              user_id |-> uid]
        ELSE Fail("Incorrect password")

\* register_device
RegisterDevice(us, user_id, device_id, device_name, t) ==
    IF user_id \notin Ids(us)
    THEN [users |-> us, saved |-> FALSE, result |-> Fail("User not found")]
    ELSE LET u   == User(us, user_id)
             dev == [name |-> device_name, registered_at |-> Strftime(t),
                     last_seen |-> Strftime(t)]
             ds  == [d \in DOMAIN u.devices \cup {device_id} |->
                        IF d = device_id THEN dev ELSE u.devices[d]]
         IN  [users |-> Put(us, user_id, [u EXCEPT !.devices = ds]),
              saved |-> TRUE,
              result |-> [success |-> TRUE,
                          message |-> <<"Device '", device_name, "' registered">>]]

\* Variant: the caretaker is appended without the membership test
AddCaretaker_NoTest(us, user_id, caretaker_email) ==
    LET caretaker_id == FindByEmail(us, caretaker_email)
    IN  IF user_id \notin Ids(us)
        THEN [users |-> us, saved |-> FALSE, result |-> Fail("User not found")]
        ELSE IF caretaker_id = ""
        THEN [users |-> us, saved |-> FALSE,
              result |-> Fail("Caretaker email not found")]
        ELSE [users |-> Put(us, user_id,
                  [User(us, user_id) EXCEPT
                      !.caretakers = Append(@, caretaker_id)]),
              saved |-> TRUE,
              result |-> [success |-> TRUE,
                          message |-> <<"Caretaker ">> \o caretaker_email
                                          \o <<" added">>]]

\* add_caretaker
AddCaretaker(us, user_id, caretaker_email) ==
    LET caretaker_id == FindByEmail(us, caretaker_email)
    IN  IF user_id \notin Ids(us)
        THEN [users |-> us, saved |-> FALSE, result |-> Fail("User not found")]
        ELSE IF caretaker_id = ""
        THEN [users |-> us, saved |-> FALSE,
              result |-> Fail("Caretaker email not found")]
        ELSE IF ~Contains(User(us, user_id).caretakers, caretaker_id)
        THEN [users |-> Put(us, user_id,
                  [User(us, user_id) EXCEPT
                      !.caretakers = Append(@, caretaker_id)]),
              saved |-> TRUE,
              result |-> [success |-> TRUE,
                          message |-> <<"Caretaker ">> \o caretaker_email
                                          \o <<" added">>]]
        ELSE [users |-> us, saved |-> FALSE,
              result |-> Fail("Caretaker already added")]

\* Variant: the relation is read the other way, the user's own caretakers
CaretakerOf_Reversed(us, user_id) ==
    IF user_id \in Ids(us) THEN User(us, user_id).caretakers ELSE <<>>

\* get_accessible_accounts: own id, then the keys, in dict order, of the
\* records whose caretakers hold user_id
RECURSIVE CaretakerOf(_, _)
CaretakerOf(us, user_id) ==
    IF us = <<>> THEN <<>>
    ELSE IF Contains(Head(us).caretakers, user_id)
         THEN <<Head(us).id>> \o CaretakerOf(Tail(us), user_id)
         ELSE CaretakerOf(Tail(us), user_id)

GetAccessibleAccounts(us, user_id) == <<user_id>> \o CaretakerOf(us, user_id)

\* set_user_theme
SetUserTheme(us, user_id, theme) ==
    IF user_id \notin Ids(us)
    THEN [users |-> us, saved |-> FALSE, result |-> Fail("User not found")]
    ELSE [users |-> Put(us, user_id,
              [User(us, user_id) EXCEPT
                  !.theme = IF theme \in {"light", "dark"} THEN theme ELSE "light"]),
          saved |-> TRUE,
          result |-> [success |-> TRUE, message |-> Msg("Theme updated")]]

\* set_user_medicines: adds or replaces the "medicines" key of the record
SetUserMedicines(us, user_id, medicines) ==
    IF user_id \notin Ids(us)
    THEN [users |-> us, saved |-> FALSE, result |-> FALSE]
    ELSE LET u == User(us, user_id)
         IN  [users |-> Put(us, user_id,
                  [f \in DOMAIN u \cup {"medicines"} |->
                      IF f = "medicines" THEN medicines ELSE u[f]]),
              saved |-> TRUE,
              result |-> TRUE]

\* verify_security_answer
VerifySecurityAnswer(us, email, provided_answer) ==
    LET uid == FindByEmail(us, email)
    IN  IF uid = "" THEN Fail("Email not found")
        ELSE IF User(us, uid).security_answer_hash
                    = HashPassword(Strip(Lower(provided_answer)))
        THEN [success |-> TRUE, message |-> Msg("Security answer verified"),
              user_id |-> uid]
        ELSE Fail("Security answer is incorrect")

\* reset_password
ResetPassword(us, user_id, new_password) ==
    IF user_id \notin Ids(us)
    THEN [users |-> us, saved |-> FALSE, result |-> Fail("User not found")]
    ELSE IF ResetPasswordError(new_password) # ""
    THEN [users |-> us, saved |-> FALSE,
          result |-> Fail(ResetPasswordError(new_password))]
    ELSE [users |-> Put(us, user_id,
              [User(us, user_id) EXCEPT
                  !.password_hash = HashPassword(new_password)]),
          saved |-> TRUE,
          result |-> [success |-> TRUE,
                      message |-> Msg("Password reset successfully")]]

\* Inputs explored for the account operations
EmailA == <<"a", "@", "x", ".", "y">>
EmailB == <<"b", "@", "x", ".", "y">>
StoredEmails == {EmailA, EmailB}
Emails == StoredEmails \cup {<<"a", "@", "x", "y">>, <<"a", ".", "x">>}

PwGood == <<"A", "b", "c", "d", "e", "1", "!">>
PwOther == <<"p", "Q", "r", "s", "_", "2", "t", "u">>
PwWeak == <<"A", "b", "c", "d", "e", "f", "1">>
Passwords == {PwGood, PwOther, PwWeak}

SignupAnswer == Str(<<"R", "e", "x", " ">>)
Answers == {<<" ", "r", "E", "X">>, <<"c", "a", "t">>}

\* uuid4() values: the n-th signup draws the n-th id
IdPool == <<"u1", "u2", "u3">>
NewId(us) == IdPool[Len(us) + 1]
UserIdInputs == {IdPool[i] : i \in 1..Cardinality(StoredEmails)} \cup {"nobody"}

\* one call of an operation that returned r: the file is written if it saved
Commit(op, args, r) ==
    /\ r.saved => nops < MaxOps
    /\ users' = r.users
    /\ nops' = IF r.saved THEN nops + 1 ELSE nops
    /\ lastCall' = [op |-> op, args |-> args, result |-> r.result]

Signup(email, password) ==
        LET uid == NewId(users)
            r == UserSignup(users, email, password, TRUE, None, None,
                            None, SignupAnswer, uid, now)
        IN  /\ Commit("user_signup",
                      [email |-> email, password |-> password], r)
            /\ signups' = IF r.saved
                          THEN signups \cup {[email |-> email,
                                              password |-> password,
                                              user_id |-> uid]}
                          ELSE signups
            /\ UNCHANGED <<verified, eventVars, idleVars>>

SignupCall == \E email \in Emails, password \in Passwords : Signup(email, password)

LoginCall ==
    \E email \in StoredEmails, password \in {PwGood, PwOther} :
        /\ lastCall' = [op |-> "user_login",
                        args |-> [email |-> email, password |-> password],
                        result |-> UserLogin(users, email, password)]
        /\ UNCHANGED <<users, nops, verified, signups,
                       eventVars, idleVars>>

RegisterDeviceCall ==
    \E user_id \in UserIdInputs :
        /\ Commit("register_device", [user_id |-> user_id],
                  RegisterDevice(users, user_id, "tab1", "Tablet", now))
        /\ UNCHANGED <<verified, signups, eventVars, idleVars>>

AddCaretakerCall ==
    \E user_id \in UserIdInputs, caretaker_email \in StoredEmails :
        /\ Commit("add_caretaker",
                  [user_id |-> user_id, caretaker_email |-> caretaker_email],
                  AddCaretaker(users, user_id, caretaker_email))
        /\ UNCHANGED <<verified, signups, eventVars, idleVars>>

GetAccessibleAccountsCall ==
    \E user_id \in UserIdInputs :
        /\ lastCall' = [op |-> "get_accessible_accounts",
                        args |-> [user_id |-> user_id],
                        result |-> GetAccessibleAccounts(users, user_id)]
        /\ UNCHANGED <<users, nops, verified, signups,
                       eventVars, idleVars>>

SetUserThemeCall ==
    \E user_id \in UserIdInputs, theme \in {"dark", "blue"} :
        /\ Commit("set_user_theme", [user_id |-> user_id, theme |-> theme],
                  SetUserTheme(users, user_id, theme))
        /\ UNCHANGED <<verified, signups, eventVars, idleVars>>

SetUserMedicinesCall ==
    \E user_id \in UserIdInputs :
        /\ Commit("set_user_medicines", [user_id |-> user_id],
                  SetUserMedicines(users, user_id, <<"aspirin">>))
        /\ UNCHANGED <<verified, signups, eventVars, idleVars>>

VerifySecurityAnswerCall ==
    \E email \in StoredEmails, provided_answer \in Answers :
        LET res == VerifySecurityAnswer(users, email, provided_answer)
        IN  /\ lastCall' = [op |-> "verify_security_answer",
                            args |-> [email |-> email,
                                      provided_answer |-> provided_answer],
                            result |-> res]
            /\ verified' = IF res.success THEN verified \cup {res.user_id}
                           ELSE verified
            /\ UNCHANGED <<users, nops, signups, eventVars, idleVars>>

Reset(user_id, new_password) ==
        LET r == ResetPassword(users, user_id, new_password)
        IN  /\ Commit("reset_password",
                      [user_id |-> user_id, new_password |-> new_password], r)
            /\ signups' = IF r.saved
                          THEN {x \in signups : x.user_id # user_id}
                          ELSE signups
            /\ UNCHANGED <<verified, eventVars, idleVars>>

ResetPasswordCall ==
    \E user_id \in UserIdInputs, new_password \in Passwords :
        Reset(user_id, new_password)

AccountInit ==
    /\ users = <<>>
    /\ nops = 0
    /\ lastCall = [op |-> "none"]
    /\ verified = {}
    /\ signups = {}

AccountNext ==
    \/ SignupCall
    \/ LoginCall
    \/ RegisterDeviceCall
    \/ AddCaretakerCall
    \/ GetAccessibleAccountsCall
    \/ SetUserThemeCall
    \/ SetUserMedicinesCall
    \/ VerifySecurityAnswerCall
    \/ ResetPasswordCall

RaceIdle ==
    /\ trial = <<>>
    /\ pc = <<"idle", "idle">>
    /\ snap = <<None, None>>
    /\ raceOp = <<None, None>>
    /\ writes = <<>>

\* the event store of a first start that finds no events.json
EventQuiet == EventInit /\ eventsFile.state = "absent"

Init == EventInit /\ AccountInit /\ RaceIdle

Next == EventNext \/ AccountNext

Spec == Init /\ [][Next]_vars

\* the event store alone, and the account store alone (they share no state)
EventSpec == Init /\ [][EventNext]_vars
AccountStart == EventQuiet /\ AccountInit /\ RaceIdle
AccountSpec == AccountStart /\ [][AccountNext]_vars

-----------------------------------------------------------------------------
(* The password policy on its own: every password over a four-character   *)
(* alphabet, one of each class, is tried against user_signup and           *)
(* reset_password on a store that holds one user.                          *)

PolicyAlphabet == {"Q", "q", "7", "#"}

TrialPasswords ==
    UNION {[1..n -> PolicyAlphabet] : n \in (MinPasswordLen - 2)..MaxTrialLen}

\* users.json after user_signup(EmailA, PwGood) on an empty store
OneUserStore ==
    UserSignup(<<>>, EmailA, PwGood, TRUE, None, None, None, SignupAnswer,
               IdPool[1], StartTime).users

PolicyInit ==
    /\ EventQuiet
    /\ users = OneUserStore
    /\ nops = 0
    /\ lastCall = [op |-> "none"]
    /\ verified = {}
    /\ signups = {}
    /\ trial \in TrialPasswords
    /\ pc = <<"idle", "idle">>
    /\ snap = <<None, None>>
    /\ raceOp = <<None, None>>
    /\ writes = <<>>

PolicySignup == Signup(EmailB, trial)

PolicyReset == \E user_id \in {IdPool[1], "nobody"} : Reset(user_id, trial)

PolicyNext == PolicySignup \/ PolicyReset

PolicySpec == PolicyInit /\ [][PolicyNext]_vars

-----------------------------------------------------------------------------
(* Two callers of the account store whose load-mutate-save cycles          *)
(* interleave.  A caller loads users.json when its operation starts        *)
(* (users = _load_users()) and writes the dict it loaded, changed, when    *)
(* the operation reaches _save_users(users).                               *)

Callers == {1, 2}

\* uuid4() values drawn by the two callers
RaceIds == <<"r1", "r2">>

EmailNew == <<"c", "@", "x", ".", "y">>

\* users.json before the callers start: two accounts
TwoUserStore ==
    UserSignup(OneUserStore, EmailB, PwOther, TRUE, None, None, None,
               SignupAnswer, IdPool[2], StartTime).users

RaceOps ==
    {[op |-> "user_signup", email |-> e, password |-> p] :
        e \in {EmailNew, EmailA}, p \in {PwGood, PwWeak}}
    \cup
    {[op |-> "add_caretaker", user_id |-> u, caretaker_email |-> e] :
        u \in {IdPool[1], IdPool[2]}, e \in StoredEmails}

\* the body of caller c's operation on the dict it loaded
RunOp(c, o, us) ==
    IF o.op = "user_signup"
    THEN UserSignup(us, o.email, o.password, TRUE, None, None, None,
                    SignupAnswer, RaceIds[c], now)
    ELSE AddCaretaker(us, o.user_id, o.caretaker_email)

\* Variant: the file is read again when the operation saves
Loaded_Fresh(c) == users

\* the dict caller c works on when it saves: the one it loaded
Loaded(c) == snap[c].users

RaceLoad(c) ==
    /\ pc[c] = "idle"
    /\ \E o \in RaceOps : raceOp' = [raceOp EXCEPT ![c] = o]
    /\ snap' = [snap EXCEPT ![c] = [users |-> users, seen |-> Len(writes)]]
    /\ pc' = [pc EXCEPT ![c] = "loaded"]
    /\ UNCHANGED <<users, writes, nops, lastCall, verified, signups, trial,
                   eventVars>>

RaceFinish(c) ==
    LET r == RunOp(c, raceOp[c], Loaded(c))
    IN  /\ pc[c] = "loaded"
        /\ users' = IF r.saved THEN r.users ELSE users
        /\ writes' = IF r.saved THEN Append(writes, c) ELSE writes
        /\ raceOp' = [raceOp EXCEPT ![c] =
                         [f \in DOMAIN @ \cup {"result"} |->
                             IF f = "result" THEN r.result ELSE @[f]]]
        /\ pc' = [pc EXCEPT ![c] = "done"]
        /\ UNCHANGED <<snap, nops, lastCall, verified, signups, trial,
                       eventVars>>

RaceInit ==
    /\ EventQuiet
    /\ users = TwoUserStore
    /\ nops = 0
    /\ lastCall = [op |-> "none"]
    /\ verified = {}
    /\ signups = {}
    /\ RaceIdle

RaceNext == \E c \in Callers : RaceLoad(c) \/ RaceFinish(c)

RaceSpec == RaceInit /\ [][RaceNext]_vars

-----------------------------------------------------------------------------
(* Properties *)

Range(q) == {q[i] : i \in 1..Len(q)}

\* a timestamp is older than t minus seven days
Expired(ts, t) == ts[2] * TicksPerSecond < t - RetentionDays * 86400 * TicksPerSecond

\* C1: when a trigger call has completed, no event whose timestamp is older
\* than the current time (the clock its prune pass read) minus 7 days is in
\* HISTORY or in events.json.
C1_NoExpiredAfterTrigger ==
    last.op = "trigger" =>
        /\ \A i \in 1..Len(HISTORY) : ~Expired(HISTORY[i].ts, now)
        /\ eventsFile.state = "ok"
        /\ \A i \in 1..Len(eventsFile.data) :
              /\ CanStrptime(eventsFile.data[i].ts)
              /\ ~Expired(eventsFile.data[i].ts, now)

\* a trigger whose prune pass dropped an event
C1_Witness == last.op = "trigger" /\ last.dropped > 0

\* C2: a login with the email and password of a successful signup succeeds
\* and returns the signup's user id, whatever signups, device registrations,
\* caretaker additions, theme and medicine updates came in between.
C2_LoginAfterSignup ==
    \A x \in signups :
        LET res == UserLogin(users, x.email, x.password)
        IN  res.success /\ res.user_id = x.user_id

\* a successful login of a user whose record was changed after the signup
C2_Witness ==
    /\ lastCall.op = "user_login"
    /\ lastCall.result.success
    /\ \E x \in signups :
          /\ x.user_id = lastCall.result.user_id
          /\ x.email = lastCall.args.email
          /\ x.password = lastCall.args.password
          /\ User(users, x.user_id).theme = "dark"
          /\ User(users, x.user_id).caretakers # <<>>

EmailStored(us, email) == \E i \in 1..Len(us) : us[i].email = email

\* C3: user_signup with an email a stored user has fails with 'Email already
\* registered', whatever the password, and leaves users.json unchanged.
C3_DuplicateEmailRejected ==
    [][(lastCall'.op = "user_signup"
            /\ EmailStored(users, lastCall'.args.email))
        => (/\ lastCall'.result = Fail("Email already registered")
            /\ users' = users)]_vars

\* a signup refused as a duplicate although its password fails the policy
C3_Witness ==
    /\ lastCall.op = "user_signup"
    /\ lastCall.result.message = Msg("Email already registered")
    /\ lastCall.args.password = PwWeak
    /\ Len(users) = 2

\* C4: get_accessible_accounts(U) holds U, and apart from U exactly the
\* stored accounts whose caretaker list holds U.
C4_AccessibleAccounts ==
    \A U \in UserIdInputs :
        LET acc == GetAccessibleAccounts(users, U)
        IN  /\ U \in Range(acc)
            /\ Range(acc) =
                  {U} \cup {a \in Ids(users) : U \in Range(User(users, a).caretakers)}

\* a call that returned another account next to the caller's own
C4_Witness ==
    /\ lastCall.op = "get_accessible_accounts"
    /\ Len(lastCall.result) >= 2
    /\ \E i \in 1..Len(lastCall.result) :
          lastCall.result[i] # lastCall.args.user_id

\* the policy as stated: at least 7 characters, an uppercase letter, a digit
\* and a character that is neither a letter nor a digit
MeetsPolicy(p) ==
    /\ Len(p) >= 7
    /\ Range(p) \cap AsciiUpper # {}
    /\ Range(p) \cap AsciiDigits # {}
    /\ Range(p) \ (AsciiUpper \cup AsciiLower \cup AsciiDigits) # {}

\* C5: user_signup (well-formed, unregistered email) and reset_password
\* (stored user id) accept a password exactly if it meets the policy, and a
\* refused password leaves users.json unchanged.
C5_PasswordPolicy ==
    [][/\ (/\ lastCall'.op = "user_signup"
           /\ Contains(lastCall'.args.email, "@")
           /\ Contains(lastCall'.args.email, ".")
           /\ ~EmailStored(users, lastCall'.args.email))
          => /\ lastCall'.result.success <=> MeetsPolicy(lastCall'.args.password)
             /\ ~MeetsPolicy(lastCall'.args.password) => users' = users
       /\ (/\ lastCall'.op = "reset_password"
           /\ lastCall'.args.user_id \in Ids(users))
          => /\ lastCall'.result.success <=> MeetsPolicy(lastCall'.args.new_password)
             /\ ~MeetsPolicy(lastCall'.args.new_password) => users' = users
      ]_vars

\* a password of the minimum length that both operations accepted
C5_Witness ==
    /\ Len(trial) = 7
    /\ lastCall.op = "reset_password"
    /\ lastCall.result.success
    /\ User(users, IdPool[1]).password_hash = HashPassword(trial)
    /\ EmailStored(users, EmailB)
    /\ User(users, FindByEmail(users, EmailB)).password_hash = HashPassword(trial)

\* the text the event has by the stated rule; `given` says whether a custom
\* text counts as provided
ClaimedText(given, button, language, custom_text) ==
    IF given THEN custom_text.str
    ELSE IF button \in ButtonCodes
         THEN IF language \in {"en", "hi", "it", "de", "fr", "es"}
              THEN <<CONFIG[button][language]>>
              ELSE <<CONFIG[button]["en"]>>
         ELSE <<"Unknown button ">> \o button

TextIs(text) ==
    /\ returned.text = text
    /\ HISTORY[1].text = text
    /\ spoken.text = text

\* C6 as stated: the text is the custom text whenever one is passed
C6_AsStated ==
    last.op = "trigger" =>
        TextIs(ClaimedText(~last.custom_text.none, returned.button,
                           returned.language, last.custom_text))

\* C6: the text of the event, and the text given to speak_text, is the
\* custom text if one is passed and it is not empty; otherwise the phrase of
\* (button, language), or the button's English phrase when the language is
\* not in its table; otherwise, for an unknown button, 'Unknown button <code>'.
C6_ResolvedText ==
    last.op = "trigger" =>
        TextIs(ClaimedText(~last.custom_text.none /\ last.custom_text.str # <<>>,
                           returned.button, returned.language,
                           last.custom_text))

\* an empty custom text, a language the button has no phrase for
C6_Witness ==
    /\ last.op = "trigger"
    /\ last.custom_text = Str(<<>>)
    /\ last.button # returned.button
    /\ returned.language = "pt"
    /\ spoken.text = <<"I need water">>

\* C7: saving HISTORY and loading it again gives the events of HISTORY that
\* have not expired, in the same order, newest first.
C7_RoundTrip ==
    /\ LoadEventsFromFile(SaveEventsToFile(HISTORY), now)
          = SelectSeq(HISTORY, LAMBDA e : ~Expired(e.ts, now))
    /\ \A i, j \in 1..Len(HISTORY) : i < j => HISTORY[i].ts[2] >= HISTORY[j].ts[2]

\* a HISTORY of which a reload keeps the newer event and drops the older
C7_Witness ==
    /\ Len(HISTORY) = 2
    /\ ~Expired(HISTORY[1].ts, now)
    /\ Expired(HISTORY[2].ts, now)
    /\ HISTORY[1].ts # HISTORY[2].ts

NoRepeat(q) == \A i, j \in 1..Len(q) : q[i] = q[j] => i = j

\* C8: add_caretaker fails with a not-found result for an unknown user or
\* email, with 'Caretaker already added' for a caretaker on the list, each
\* time leaving users.json unchanged; otherwise it appends the caretaker's id
\* once and changes nothing else; no caretaker list holds an id twice.
C8_AddCaretaker ==
    [][/\ lastCall'.op = "add_caretaker" =>
            LET u   == lastCall'.args.user_id
                e   == lastCall'.args.caretaker_email
                res == lastCall'.result
                cid == (CHOOSE i \in 1..Len(users) : users[i].email = e)
            IN  IF u \notin Ids(users) \/ ~EmailStored(users, e)
                THEN /\ res \in {Fail("User not found"),
                                 Fail("Caretaker email not found")}
                     /\ users' = users
                ELSE IF users[cid].id \in Range(User(users, u).caretakers)
                THEN /\ res = Fail("Caretaker already added")
                     /\ users' = users
                ELSE /\ res.success
                     /\ Len(users') = Len(users)
                     /\ \A i \in 1..Len(users) :
                           users'[i] =
                              IF users[i].id = u
                              THEN [users[i] EXCEPT
                                       !.caretakers = Append(@, users[cid].id)]
                              ELSE users[i]
       /\ \A i \in 1..Len(users') : NoRepeat(users'[i].caretakers)
      ]_vars

\* a caretaker refused because the list already holds it
C8_Witness ==
    /\ lastCall.op = "add_caretaker"
    /\ lastCall.result = Fail("Caretaker already added")

\* C9: the stored password of a user U changes only if a
\* verify_security_answer call for U's email has succeeded before.
C9_ResetAfterVerification ==
    [][\A i \in 1..Len(users) :
          users'[i].password_hash # users[i].password_hash
              => users[i].id \in verified]_vars

\* what caller c's operation adds to a store
AddedIds(c) ==
    IF raceOp[c].op = "user_signup" THEN {RaceIds[c]} ELSE {}

AddedCaretakers(c, u) ==
    IF raceOp[c].op = "add_caretaker" /\ raceOp[c].user_id = u
    THEN <<FindByEmail(TwoUserStore, raceOp[c].caretaker_email)>>
    ELSE <<>>

BothLoadedFirst ==
    /\ pc = <<"done", "done">>
    /\ Len(writes) = 2
    /\ snap[1].seen = 0
    /\ snap[2].seen = 0

\* C10: when two callers both load users.json before either saves, and both
\* save, the file holds the later writer's version alone: the earlier
\* writer's change is not in it although that caller was told it succeeded.
C10_LastWriterWins ==
    BothLoadedFirst =>
        LET first == writes[1]
            later == writes[2]
        IN  /\ raceOp[first].result.success
            /\ raceOp[later].result.success
            /\ Ids(users) = Ids(TwoUserStore) \cup AddedIds(later)
            /\ \A u \in Ids(TwoUserStore) :
                  User(users, u).caretakers
                     = User(TwoUserStore, u).caretakers \o AddedCaretakers(later, u)
            /\ AddedIds(first) \cap Ids(users) = {}
            /\ \A u \in Ids(TwoUserStore) :
                  AddedCaretakers(first, u) # AddedCaretakers(later, u)
                     => Range(AddedCaretakers(first, u))
                           \cap Range(User(users, u).caretakers) = {}

\* a signup saved first and lost to an add_caretaker saved after it
C10_Witness ==
    /\ BothLoadedFirst
    /\ raceOp[writes[1]].op = "user_signup"
    /\ raceOp[writes[2]].op = "add_caretaker"
    /\ Len(users) = 2

====
